---- MODULE Spec2Model ----
(***************************************************************************)
(* Model of the callout engine of mdevctl (src/src/callouts.rs).           *)
(*                                                                         *)
(* One behaviour is one call of Callout::invoke (the Pre callout, the       *)
(* action function, the Post callout and the notification scripts) or one  *)
(* call of Callout::get_attributes.  Every launch of an external script is *)
(* one step whose outcome (exit code, termination by a signal, failure to  *)
(* spawn, what it wrote) is chosen by the environment.  The file system    *)
(* (the callout and notification directories and the scripts in them) is   *)
(* part of the state.                                                      *)
(***************************************************************************)
EXTENDS Naturals, Sequences, FiniteSets

(***************************************************************************)
(* Bounds of the model.                                                    *)
(***************************************************************************)
NumCalloutDirs == 2
NumNotifyDirs == 1
NumNames == 2
MaxFiles == 2

(***************************************************************************)
(* Option<T>: None is the empty sequence, Some(x) a one-element sequence.  *)
(***************************************************************************)
None == << >>
Some(x) == << x >>
unwrap(o) == o[1]

(***************************************************************************)
(* File names are sequences of characters (naturals); a path is a          *)
(* directory joined with a file name.                                      *)
(***************************************************************************)
AllNames == << <<2>>, <<1, 2>>, <<1>>, <<2, 1>>, <<1, 1>> >>
Names == {AllNames[i] : i \in 1..NumNames}

callout_dirs == [i \in 1..NumCalloutDirs |-> <<"callouts", i>>]
notification_dirs == [i \in 1..NumNotifyDirs |-> <<"notifiers", i>>]
Range(s) == {s[i] : i \in DOMAIN s}
AllDirs == Range(callout_dirs) \cup Range(notification_dirs)

join(d, n) == [dir |-> d, name |-> n]

\* Mutant: the shorter name sorts first.
LexLess_ShorterFirst(a, b) ==
    \/ Len(a) < Len(b)
    \/ /\ Len(a) = Len(b)
       /\ \E k \in 1..Len(a) : a[k] < b[k] /\ \A j \in 1..(k - 1) : a[j] = b[j]

\* Lexicographic order of two character sequences (Ord of a path component).
RECURSIVE LexLess(_, _)
LexLess(a, b) ==
    IF b = << >> THEN FALSE
    ELSE IF a = << >> THEN TRUE
    ELSE IF a[1] /= b[1] THEN a[1] < b[1]
    ELSE LexLess(Tail(a), Tail(b))

\* PathBuf's order compares the components; the entries of one directory
\* share every component but the last, the file name.
PathLess(p, q) == LexLess(p.name, q.name)

\* sorted_paths.sort(): the paths of S in ascending order.
RECURSIVE sort(_)
sort(S) ==
    IF S = {} THEN << >>
    ELSE LET m == CHOOSE p \in S : \A q \in S \ {p} : PathLess(p, q)
         IN  <<m>> \o sort(S \ {m})

(***************************************************************************)
(* The file system gives the entries of each directory.  A directory that  *)
(* holds entries is a readable directory.  A directory without entries is, *)
(* when the code looks at it, missing (is_dir() is false), unreadable      *)
(* (is_dir() holds and read_dir() fails) or an empty directory.            *)
(***************************************************************************)
DirKinds(f, d) == IF f[d] = {} THEN {"missing", "unreadable", "dir"} ELSE {"dir"}

RECURSIVE SumCard(_, _)
SumCard(f, D) ==
    IF D = {} THEN 0
    ELSE LET d == CHOOSE x \in D : TRUE
         IN  Cardinality(f[d]) + SumCard(f, D \ {d})
NumFiles(f) == SumCard(f, AllDirs)

FileSystems == {f \in [AllDirs -> SUBSET Names] : NumFiles(f) <= MaxFiles}

\* dir.is_dir() for a directory of kind k.
is_dir(k) == k /= "missing"
\* dir.read_dir(): None when the directory cannot be read, else its paths.
read_dir(f, d, k) ==
    IF k = "dir" THEN Some({join(d, n) : n \in f[d]}) ELSE None

(***************************************************************************)
(* Results.                                                                *)
(***************************************************************************)
NoPath == [dir |-> << >>, name |-> << >>]
Ok == [tag |-> "Ok", path |-> NoPath, code |-> None]
NoMatchingScript == [tag |-> "NoMatchingScript", path |-> NoPath, code |-> None]
InvocationFailure(p, c) == [tag |-> "InvocationFailure", path |-> p, code |-> c]
FuncError == [tag |-> "FuncError", path |-> NoPath, code |-> None]
Panicked == [tag |-> "Panic", path |-> NoPath, code |-> None]
Pending == [tag |-> "Pending", path |-> NoPath, code |-> None]

ExitCodes == {0, 1, 2}

(***************************************************************************)
(* What a script wrote on its standard output, as a sequence of            *)
(* characters, and the JSON values serde_json reads from it: arrays, the   *)
(* empty object and null.                                                  *)
(***************************************************************************)
Stdouts ==
    { << >>,
      <<"[", "{", "}", "]">>,
      <<"[", "]">>,
      <<"{", "}">>,
      <<"[", "{", "}", "]", " ">>,
      <<"[", "{", "}", ",", "{", "}", "]">>,
      <<"[", "{", "}", ",", "]">>,
      <<"[", "{", "}">>,
      <<"x">> }

JNull == <<"null">>
JObject == <<"object">>
JArray(items) == <<"array", items>>

ParseErr == [ok |-> FALSE, value |-> << >>, next |-> 0]
Parsed(v, i) == [ok |-> TRUE, value |-> v, next |-> i]

\* The position of the first character of s at or after i that is not
\* whitespace.
RECURSIVE skip_ws(_, _)
skip_ws(s, i) ==
    IF i <= Len(s) /\ s[i] = " " THEN skip_ws(s, i + 1) ELSE i

\* One JSON value of s from position i on; the elements of an array after
\* its opening bracket.
RECURSIVE parse_value(_, _)
RECURSIVE parse_elements(_, _, _)
parse_value(s, i0) ==
    LET i == skip_ws(s, i0)
    IN  IF i > Len(s) THEN ParseErr
        ELSE IF s[i] = "{"
        THEN LET j == skip_ws(s, i + 1)
             IN  IF j <= Len(s) /\ s[j] = "}" THEN Parsed(JObject, j + 1)
                 ELSE ParseErr
        ELSE IF s[i] = "["
        THEN LET j == skip_ws(s, i + 1)
             IN  IF j <= Len(s) /\ s[j] = "]" THEN Parsed(JArray(<< >>), j + 1)
                 ELSE parse_elements(s, j, << >>)
        ELSE ParseErr
parse_elements(s, i, acc) ==
    LET v == parse_value(s, i)
    IN  IF ~v.ok THEN ParseErr
        ELSE LET j == skip_ws(s, v.next)
                 items == Append(acc, v.value)
             IN  IF j > Len(s) THEN ParseErr
                 ELSE IF s[j] = "]" THEN Parsed(JArray(items), j + 1)
                 ELSE IF s[j] = "," THEN parse_elements(s, j + 1, items)
                 ELSE ParseErr

\* serde_json::from_str: the value when s is one JSON value and nothing but
\* whitespace around it, None otherwise.
from_str(s) ==
    LET v == parse_value(s, 1)
    IN  IF v.ok /\ skip_ws(s, v.next) > Len(s) THEN Some(v.value) ELSE None

\* Results of get_attributes.
JsonOk(v) == [tag |-> "Ok", path |-> NoPath, code |-> None, value |-> v]
InvalidJSON == [tag |-> "InvalidJSON", path |-> NoPath, code |-> None]

(***************************************************************************)
(* What one call of invoke_script can produce.                             *)
(***************************************************************************)
\* Ok(output): the exit code of the process (None when a signal ended it),
\* whether it wrote on its standard error, and its standard output.
Output(c, e, o) == [tag |-> "Ok", code |-> c, stderr |-> e, stdout |-> o]
\* Err: the payload cannot be built, the process cannot be spawned or its
\* stdin cannot be written.
IoError == [tag |-> "Err", code |-> None, stderr |-> FALSE, stdout |-> << >>]
\* The unwrap of a missing device type or of a missing parent panics.
PanicOut == [tag |-> "Panic", code |-> None, stderr |-> FALSE, stdout |-> << >>]

\* The standard output is read only by parse_attribute_output, for a Get
\* script that exited with code 0; elsewhere it is captured and dropped.
\* For a device without a type the payload of Pre, Post and Notify cannot
\* name the type (Err) or the unwrap of the type panics; for Get there is no
\* payload and the unwrap panics.  For a device with a type and without a
\* parent the unwrap of the parent panics, before any process is launched.
invoke_script(t, par, ev) ==
    IF t /= None /\ par = None
    THEN {PanicOut}
    ELSE IF t /= None
    THEN {Output(c, e, << >>) :
              c \in {None} \cup {Some(n) : n \in ExitCodes}, e \in BOOLEAN}
         \cup (IF ev = "get"
               THEN {Output(Some(0), e, o) : e \in BOOLEAN, o \in Stdouts}
               ELSE {})
         \cup {IoError}
    ELSE IF ev = "get" THEN {PanicOut} ELSE {IoError, PanicOut}

\* print_err: what is written to the operator, the file name of the script
\* when the script wrote on its standard error.
print_err(out, path) == IF out.stderr THEN Some(path.name) ELSE None

\* The types, the parents and the identifiers a device can have.  func gets
\* the device by mutable reference: whatever the action, it can leave the
\* device with any type or without one, with any parent or without one, and
\* with any identifier.
DevTypes == {"t1", "t2"}
Parents == {"P", "Q"}
Uuids == {"U", "V"}
func_types(t) == {None} \cup {Some(x) : x \in DevTypes}
func_parents(par) == {None} \cup {Some(x) : x \in Parents}
func_uuids(u) == Uuids

VARIABLES
    force,          \* invoke's force argument
    action,         \* the action argument, handed on to every script (-a)
    mdev_type,      \* dev.mdev_type, an Option of a type
    parent,         \* dev.parent, an Option of a parent
    uuid,           \* dev.uuid
    log_debug,      \* the log level lets debug! evaluate its arguments
    fs,             \* the entries of each directory
    pc,             \* where the call is
    event,          \* the event of the running phase: "pre", "post", "notify", "get"
    c_state,        \* Callout.state
    c_script,       \* Callout.script, an Option of a path
    dir_idx,        \* position of the for loop over the directories
    sorted_paths,   \* sorted_paths of the last call of invoke_first_matching_script
    path_idx,       \* position of its for loop over sorted_paths
    found,          \* what that call returned: the path of the claiming entry
    readdir,        \* what is left of the read_dir iterator in notify
    last_out,       \* what the last call of invoke_script returned, until the
                    \* phase it was made in has ended and the call goes on
    eprint,         \* what was written to the operator for that output
    pre_res,        \* what callout(Pre) returned
    tmp_res,        \* what the action function returned
    post_res,       \* what callout(Post) returned
    res,            \* what invoke or get_attributes returns
    log,            \* the calls made so far, in order
    earlier,        \* an earlier call of the process left a session with a
                    \* state or a sticky script
    mode,           \* "off"; or "on": every step of the call is recorded to
                    \* be compared; or "flip", "asok": the call is a twin of
                    \* the call compared, about to take the step recorded
    target,         \* the state the recorded step led to
    before          \* the state the last step was taken in

vars == <<force, action, mdev_type, parent, uuid, log_debug, fs, pc, event,
          c_state, c_script, dir_idx, sorted_paths, path_idx, found, readdir, last_out, eprint, pre_res,
          tmp_res, post_res, res, log, earlier, mode, target, before>>

\* The arguments of the call and what is known of earlier calls, which no
\* step of the call changes.
args == <<force, action, log_debug, earlier, mode, target>>
\* The device.
device == <<mdev_type, parent, uuid>>
\* The session.
session == <<c_state, c_script>>
\* The state of the last scan of the Matcher.
scan == <<sorted_paths, path_idx, found>>
\* The results of the phases of invoke.
results == <<pre_res, tmp_res, post_res>>

\* The entries of the log.  Each holds the session (state and sticky script)
\* and the arguments taken from the device at the time of the call.
\* invoke_script(p), called by "matcher", "sticky" or "notify".
ScriptCall(p, by) ==
    [kind |-> "script", path |-> p, event |-> event, state |-> c_state,
     script |-> c_script, via |-> by,
     argv |-> [t |-> mdev_type, a |-> action, u |-> uuid, p |-> parent]]
\* A scan: read_dir listed the entries of d and the loop over them starts.
ReadDirCall(d) ==
    [kind |-> "read_dir", path |-> join(d, << >>), event |-> event,
     state |-> c_state, script |-> c_script, via |-> "none", argv |-> << >>]
\* func(dev), with the device as it is before the call
FuncCall ==
    [kind |-> "func", path |-> NoPath, event |-> "none", state |-> c_state,
     script |-> c_script, via |-> "none",
     argv |-> [t |-> mdev_type, a |-> action, u |-> uuid, p |-> parent]]
\* c.notify(dev, action), with the session as the callout that just returned
\* left it: the step that ends the callout may be the one that records the
\* sticky script.
NotifyCall ==
    [kind |-> "notify", path |-> NoPath, event |-> "notify", state |-> c_state,
     script |-> c_script', via |-> "none", argv |-> << >>]

\* No Output is held: none was produced yet, or the last one was dropped.
NoOutput == [tag |-> "None", code |-> None, stderr |-> FALSE, stdout |-> << >>]

\* Callout::new(), at the start of a call for event ev.
Start(ev, p) ==
    /\ mdev_type \in {None, Some("t1")}
    /\ parent \in {None, Some("P")}
    /\ uuid = "U"
    /\ log_debug \in BOOLEAN
    /\ fs \in FileSystems
    /\ pc = p
    /\ event = ev
    /\ c_state = "none"
    /\ c_script = None
    /\ dir_idx = 1
    /\ sorted_paths = << >>
    /\ path_idx = 1
    /\ found = None
    /\ readdir = {}
    /\ last_out = NoOutput
    /\ eprint = None
    /\ pre_res = Pending
    /\ tmp_res = Pending
    /\ post_res = Pending
    /\ res = Pending
    /\ log = << >>

\* The first call of the process, not compared with another call.
Single ==
    /\ earlier = FALSE
    /\ mode = "off"
    /\ target = << >>
    /\ before = << >>

\* A call of invoke for the define action.
Init ==
    /\ force \in BOOLEAN
    /\ action = "define"
    /\ Start("pre", "callout")
    /\ Single

\* A call of invoke for the modify action.
InitModify ==
    /\ force \in BOOLEAN
    /\ action = "modify"
    /\ Start("pre", "callout")
    /\ Single

\* A call of get_attributes, which has no force argument.
InitGet ==
    /\ force = FALSE
    /\ action = "attributes"
    /\ Start("get", "get")
    /\ Single

(***************************************************************************)
(* Decisions of the code, one operator each.                               *)
(***************************************************************************)

\* Mutant: an entry that cannot be launched ends the scan.
claims_SpawnFailureToo(out) ==
    \/ out.tag = "Err"
    \/ out.tag = "Ok" /\ out.code /= None /\ out.code /= Some(2)

\* Mutant: exit code 2 is not told apart from the other codes.
claims_AnyExitCode(out) == out.tag = "Ok" /\ out.code /= None

\* invoke_first_matching_script: the entry claims the event when its process
\* exited with a code, and the code is not 2.
claims(out) == out.tag = "Ok" /\ out.code /= None /\ out.code /= Some(2)

\* callout_dir: .ok().and_then(|output| output.status.code())
status_code(out) == IF out.tag = "Ok" THEN out.code ELSE None

\* Mutant: the sticky script is never used, every callout scans again.
use_sticky_Never(script) == FALSE

\* callout_dir: the sticky script, when there is one, is used.
use_sticky(script) == script /= None

\* Mutant: the match on rc has no arm for code 0.
rc_result_NoSuccessArm(rc, script) ==
    IF rc /= None
    THEN IF script = None THEN Panicked
         ELSE InvocationFailure(unwrap(script), rc)
    ELSE NoMatchingScript

\* callout_dir: the match on rc.
rc_result(rc, script) ==
    IF rc = Some(0) THEN Ok
    ELSE IF rc /= None
         THEN IF script = None THEN Panicked
              ELSE InvocationFailure(unwrap(script), rc)
         ELSE NoMatchingScript

\* Mutant: the loop goes on after any error.
continues_OnAnyError(r) == r.tag /= "Ok"

\* callout: the loop goes on to the next directory.
continues(r) == r.tag = "NoMatchingScript"

\* Mutant: no script in any directory is an error.
callout_no_match_IsError == NoMatchingScript

\* callout: no directory gave a result.
callout_no_match == Ok

\* Mutant: the action function runs whatever the Pre callout returned.
PreProceeds_Always(r, f) == TRUE

\* Mutant: the action function runs only when the call is forced.
PreProceeds_OnlyForced(r, f) == f

\* Mutant: the force flag is ignored.
PreProceeds_IgnoresForce(r, f) == r.tag = "Ok"

\* Mutant: the force flag is read the wrong way round.
PreProceeds_InvertedForce(r, f) == r.tag = "Ok" \/ ~f

\* invoke: the or_else on the result of the Pre callout.
PreProceeds(r, f) == r.tag = "Ok" \/ f

\* Mutant: the two states are mixed up.
state_of_Swapped(r) == IF r.tag = "Ok" THEN "failure" ELSE "success"

\* Mutant: the state is success whatever the action function returned.
state_of_AlwaysSuccess(r) == "success"

\* invoke: c.state after the action function returned r.
state_of(r) == IF r.tag = "Ok" THEN "success" ELSE "failure"

\* Mutant: the claiming script is not recorded in the session.
claimed_script_NotRecorded(path) == None

\* callout_dir: self.script = Some(path), for the script the Matcher returned.
claimed_script(path) == Some(path)

\* Mutant: notify stops at the first script that does not succeed.
notify_continues_OnlyOnSuccess(out) == out.tag = "Ok" /\ out.code = Some(0)

\* notify: the loop over the entries goes on whatever the script returned.
notify_continues(out) == TRUE

\* Mutant: the literal [{}] is parsed as it is.
normalize_Identity(st) == st

\* parse_attribute_output: the literal [{}] stands for no attributes.
normalize(st) == IF st = <<"[", "{", "}", "]">> THEN <<"[", "]">> ELSE st

\* parse_attribute_output: the result of get_attributes_dir for the output
\* of the script that claimed Get.
parse_attribute_output(path, out) ==
    IF out.code = Some(0)
    THEN IF out.stdout = << >> THEN JsonOk(JNull)
         ELSE IF from_str(normalize(out.stdout)) = None THEN InvalidJSON
         ELSE JsonOk(unwrap(from_str(normalize(out.stdout))))
    ELSE InvocationFailure(path, out.code)

\* Mutant: the search goes on after any error.
get_continues_OnAnyError(r) == r.tag /= "Ok"

\* get_attributes: the loop goes on to the next directory.
get_continues(r) == r.tag = "NoMatchingScript"

\* get_attributes: no directory gave a result.
get_no_match == JsonOk(JNull)

\* Mutant: an error of the Post callout is propagated.
invoke_result_PostError(tmp, post) == IF post.tag /= "Ok" THEN post ELSE tmp

\* invoke: the closure of and_then returns tmp_res, whatever post_res is.
invoke_result(tmp, post) == tmp

(***************************************************************************)
(* Continuations: what the caller does with a result.                      *)
(***************************************************************************)

\* Mutant: an error is returned at once, before the notification scripts run.
EnterNotify_OnlyOnSuccess(lg, result) ==
    IF result.tag = "Ok"
    THEN /\ pc' = "notify"
         /\ event' = "notify"
         /\ dir_idx' = 1
         /\ res' = result
         /\ log' = Append(lg, NotifyCall)
    ELSE /\ pc' = "done"
         /\ res' = result
         /\ log' = lg
         /\ UNCHANGED <<event, dir_idx>>

\* invoke calls c.notify and will return result.
EnterNotify(lg, result) ==
    /\ pc' = "notify"
    /\ event' = "notify"
    /\ dir_idx' = 1
    /\ res' = result
    /\ log' = Append(lg, NotifyCall)

\* invoke: callout returned r.
callout_returns(r, lg) ==
    IF r.tag = "Panic"
    THEN /\ pc' = "panic"
         /\ log' = lg
         /\ UNCHANGED <<event, dir_idx, pre_res, tmp_res, post_res, res>>
    ELSE IF event = "pre"
    THEN /\ pre_res' = r
         /\ UNCHANGED <<tmp_res, post_res>>
         /\ IF PreProceeds(r, force)
            THEN /\ pc' = "func"
                 /\ log' = lg
                 /\ UNCHANGED <<event, dir_idx, res>>
            ELSE EnterNotify(lg, r)
    ELSE /\ post_res' = r
         /\ UNCHANGED <<pre_res, tmp_res>>
         /\ EnterNotify(lg, invoke_result(tmp_res, r))

\* callout: callout_dir returned r for the directory at dir_idx.
callout_dir_returns(r, lg) ==
    IF continues(r)
    THEN /\ pc' = "callout"
         /\ dir_idx' = dir_idx + 1
         /\ log' = lg
         /\ UNCHANGED <<event, pre_res, tmp_res, post_res, res>>
    ELSE callout_returns(r, lg)

\* get_attributes: get_attributes_dir returned r for the directory at dir_idx.
get_attributes_dir_returns(r, lg) ==
    /\ log' = lg
    /\ IF get_continues(r)
       THEN /\ pc' = "get"
            /\ dir_idx' = dir_idx + 1
            /\ UNCHANGED res
       ELSE /\ pc' = "done"
            /\ res' = r
            /\ UNCHANGED dir_idx
    /\ UNCHANGED <<event, pre_res, tmp_res, post_res>>

(***************************************************************************)
(* Two calls compared, step by step.  A call in mode "on" records with     *)
(* every step the state the step was taken in.  Its twin is put in that    *)
(* state, with the other value of force or with another result of the Pre  *)
(* callout, and has to take the same step.                                 *)
(***************************************************************************)

\* The state of a call, but for its arguments.
Obs ==
    [pc |-> pc, event |-> event, mdev_type |-> mdev_type, parent |-> parent,
     uuid |-> uuid, fs |-> fs,
     c_state |-> c_state, c_script |-> c_script, dir_idx |-> dir_idx,
     sorted_paths |-> sorted_paths, path_idx |-> path_idx, found |-> found,
     readdir |-> readdir, last_out |-> last_out, eprint |-> eprint,
     pre_res |-> pre_res, tmp_res |-> tmp_res, post_res |-> post_res,
     res |-> res, log |-> log]

\* State o of a forced call whose Pre callout failed for a claiming script,
\* as it is when the script exits with code 0 instead and the Pre callout
\* returns Ok.
AsOk(o) ==
    [o EXCEPT
       !.pre_res = IF @.tag = "InvocationFailure" THEN Ok ELSE @,
       !.last_out = IF o.pre_res.tag = "InvocationFailure" /\ o.event = "pre"
                    THEN [@ EXCEPT !.code = Some(0)] ELSE @]

\* The state of the twin that corresponds to state o of the call compared.
Expected(o) == IF mode = "asok" THEN AsOk(o) ELSE o

\* Every step of a call ends with this: the state the step was taken in is
\* recorded, and the step of a twin leads to the state expected.
Recorded ==
    IF mode = "off"
    THEN UNCHANGED before
    ELSE /\ before' = <<Obs>>
         /\ mode \in {"flip", "asok"} => Obs' = Expected(target[1])

(***************************************************************************)
(* The steps.                                                              *)
(***************************************************************************)

\* callout_dir with a sticky script: the script is invoked, no directory is read.
callout_dir_sticky ==
    /\ pc = "callout"
    /\ dir_idx <= NumCalloutDirs
    /\ use_sticky(c_script)
    /\ UNCHANGED <<args, device, fs, session, scan, readdir>>
    /\ \E out \in invoke_script(mdev_type, parent, event) :
         LET lg == Append(log, ScriptCall(unwrap(c_script), "sticky"))
         IN  /\ last_out' = out
             /\ eprint' = IF out.tag = "Ok" THEN print_err(out, unwrap(c_script))
                           ELSE None
             /\ IF out.tag = "Panic"
                THEN callout_returns(Panicked, lg)
                ELSE callout_dir_returns(rc_result(status_code(out), c_script), lg)
    /\ Recorded

\* callout_dir without a sticky script, up to the first entry of the scan.
\* The Matcher returns None at once for a device without a type, when the
\* log level makes debug! evaluate its arguments.
callout_dir_scan ==
    /\ pc = "callout"
    /\ dir_idx <= NumCalloutDirs
    /\ ~use_sticky(c_script)
    /\ UNCHANGED <<args, device, fs, session, readdir, last_out, eprint>>
    /\ \E k \in DirKinds(fs, callout_dirs[dir_idx]) :
       LET d == callout_dirs[dir_idx]
       IN  IF ~is_dir(k) \/ (mdev_type = None /\ log_debug)
           THEN /\ callout_dir_returns(NoMatchingScript, log)
                /\ UNCHANGED scan
           ELSE IF read_dir(fs, d, k) = None \/ read_dir(fs, d, k) = Some({})
           THEN /\ callout_dir_returns(NoMatchingScript, log)
                /\ UNCHANGED scan
           ELSE /\ sorted_paths' = sort(unwrap(read_dir(fs, d, k)))
                /\ path_idx' = 1
                /\ found' = None
                /\ pc' = "matcher"
                /\ log' = Append(log, ReadDirCall(d))
                /\ UNCHANGED <<event, dir_idx, results, res>>
    /\ Recorded

\* One round of the loop of invoke_first_matching_script, and what its
\* caller (callout_dir, or get_attributes_dir for Get) does with the result
\* when the loop ends.
invoke_first_matching_script ==
    /\ pc = "matcher"
    /\ \E out \in invoke_script(mdev_type, parent, event) :
         LET path == sorted_paths[path_idx]
             lg == Append(log, ScriptCall(path, "matcher"))
         IN  /\ last_out' = out
             /\ IF out.tag = "Panic"
                THEN /\ UNCHANGED <<c_script, path_idx, found>>
                     /\ callout_returns(Panicked, lg)
                     /\ eprint' = None
                ELSE IF claims(out)
                THEN /\ found' = Some(path)
                     /\ UNCHANGED path_idx
                     /\ IF event = "get"
                        THEN /\ eprint' = IF out.code = Some(0) THEN None
                                           ELSE print_err(out, path)
                             /\ get_attributes_dir_returns(
                                    parse_attribute_output(path, out), lg)
                             /\ UNCHANGED c_script
                        ELSE /\ eprint' = print_err(out, path)
                             /\ c_script' = claimed_script(path)
                             /\ callout_dir_returns(
                                    rc_result(out.code, claimed_script(path)), lg)
                ELSE IF path_idx < Len(sorted_paths)
                THEN /\ path_idx' = path_idx + 1
                     /\ log' = lg
                     /\ eprint' = None
                     /\ UNCHANGED <<c_script, found, pc, event, dir_idx,
                                    results, res>>
                ELSE /\ UNCHANGED <<c_script, path_idx, found>>
                     /\ IF event = "get"
                        THEN get_attributes_dir_returns(NoMatchingScript, lg)
                        ELSE callout_dir_returns(NoMatchingScript, lg)
                     /\ eprint' = None
    /\ UNCHANGED <<args, device, fs, c_state, sorted_paths, readdir>>
    /\ Recorded

\* callout: the loop over the directories ended without a result.
callout_exhausted ==
    /\ pc = "callout"
    /\ dir_idx > NumCalloutDirs
    /\ UNCHANGED <<args, device, fs, session, scan, readdir, last_out, eprint>>
    /\ callout_returns(callout_no_match, log)
    /\ Recorded

\* invoke: the action function runs, and the Post callout starts.
func ==
    /\ pc = "func"
    /\ \E r \in {Ok, FuncError} :
         /\ tmp_res' = r
         /\ c_state' = state_of(r)
    /\ mdev_type' \in func_types(mdev_type)
    /\ parent' \in func_parents(parent)
    /\ uuid' \in func_uuids(uuid)
    /\ log' = Append(log, FuncCall)
    /\ pc' = "callout"
    /\ event' = "post"
    /\ dir_idx' = 1
    /\ last_out' = NoOutput
    /\ eprint' = None
    /\ UNCHANGED <<args, fs, c_script, scan, readdir, pre_res, post_res, res>>
    /\ Recorded

\* The environment: while the action function runs, somebody adds a script
\* to a callout directory.
add_script ==
    /\ pc = "func"
    /\ NumFiles(fs) < MaxFiles
    /\ \E d \in Range(callout_dirs), n \in Names :
         /\ n \notin fs[d]
         /\ fs' = [fs EXCEPT ![d] = @ \cup {n}]
    /\ UNCHANGED <<args, device, pc, event, session, dir_idx, scan, readdir,
                   last_out, eprint, results, res, log>>
    /\ Recorded

\* notify: the next notification directory.
notify_dir ==
    /\ pc = "notify"
    /\ dir_idx <= NumNotifyDirs
    /\ \E k \in DirKinds(fs, notification_dirs[dir_idx]) :
       LET d == notification_dirs[dir_idx]
       IN  IF ~is_dir(k)
           THEN /\ dir_idx' = dir_idx + 1
                /\ UNCHANGED <<pc, readdir, log>>
           ELSE IF read_dir(fs, d, k) = None \/ read_dir(fs, d, k) = Some({})
           THEN /\ dir_idx' = dir_idx + 1
                /\ UNCHANGED <<pc, readdir, log>>
           ELSE /\ readdir' = unwrap(read_dir(fs, d, k))
                /\ pc' = "notify_scan"
                /\ log' = Append(log, ReadDirCall(d))
                /\ UNCHANGED dir_idx
    /\ last_out' = NoOutput
    /\ eprint' = None
    /\ UNCHANGED <<args, device, fs, event, session, scan, results, res>>
    /\ Recorded

\* notify: the next entry of the directory, in the order read_dir yields.
\* Whatever the script returns, the loop goes on (the output is only logged).
notify_script ==
    /\ pc = "notify_scan"
    /\ \E path \in readdir, out \in invoke_script(mdev_type, parent, event) :
         /\ log' = Append(log, ScriptCall(path, "notify"))
         /\ IF out.tag = "Panic"
            THEN /\ pc' = "panic"
                 /\ UNCHANGED <<readdir, dir_idx>>
            ELSE IF notify_continues(out)
            THEN /\ readdir' = readdir \ {path}
                 /\ IF readdir' = {}
                    THEN pc' = "notify" /\ dir_idx' = dir_idx + 1
                    ELSE UNCHANGED <<pc, dir_idx>>
            ELSE /\ readdir' = {}
                 /\ pc' = "notify"
                 /\ dir_idx' = NumNotifyDirs + 1
    /\ UNCHANGED <<args, device, fs, event, session, scan, last_out, eprint,
                   results, res>>
    /\ Recorded

\* Mutant: the session is cleared when notify returns.
notify_returns_ResetsSession ==
    /\ pc = "notify"
    /\ dir_idx > NumNotifyDirs
    /\ pc' = "done"
    /\ last_out' = NoOutput
    /\ eprint' = None
    /\ c_state' = "none"
    /\ c_script' = None
    /\ UNCHANGED <<args, device, fs, event, dir_idx, scan, readdir,
                   results, res, log>>
    /\ Recorded

\* notify returns, and invoke returns res.
notify_returns ==
    /\ pc = "notify"
    /\ dir_idx > NumNotifyDirs
    /\ pc' = "done"
    /\ last_out' = NoOutput
    /\ eprint' = None
    /\ UNCHANGED <<args, device, fs, event, session, dir_idx, scan, readdir,
                   results, res, log>>
    /\ Recorded

\* get_attributes: the next callout directory, up to the first entry of the
\* scan of get_attributes_dir.  When the Matcher returns None, debug! unwraps
\* the device type if the log level makes it evaluate its arguments.
get_attributes_dir ==
    /\ pc = "get"
    /\ dir_idx <= NumCalloutDirs
    /\ \E k \in DirKinds(fs, callout_dirs[dir_idx]) :
       LET d == callout_dirs[dir_idx]
       IN  IF ~is_dir(k)
           THEN /\ dir_idx' = dir_idx + 1
                /\ UNCHANGED <<pc, event, scan, results, res, log>>
           ELSE IF mdev_type = None /\ log_debug
           THEN /\ pc' = "panic"
                /\ UNCHANGED <<event, dir_idx, scan, results, res, log>>
           ELSE IF read_dir(fs, d, k) = None \/ read_dir(fs, d, k) = Some({})
           THEN /\ get_attributes_dir_returns(NoMatchingScript, log)
                /\ UNCHANGED scan
           ELSE /\ sorted_paths' = sort(unwrap(read_dir(fs, d, k)))
                /\ path_idx' = 1
                /\ found' = None
                /\ pc' = "matcher"
                /\ log' = Append(log, ReadDirCall(d))
                /\ UNCHANGED <<event, dir_idx, results, res>>
    /\ UNCHANGED <<args, device, fs, session, readdir, last_out, eprint>>
    /\ Recorded

\* get_attributes: the loop over the directories ended without a result.
get_attributes_exhausted ==
    /\ pc = "get"
    /\ dir_idx > NumCalloutDirs
    /\ pc' = "done"
    /\ res' = get_no_match
    /\ UNCHANGED <<args, device, fs, event, session, dir_idx, scan, readdir,
                   last_out, eprint, results, log>>
    /\ Recorded

\* Mutant: the session of the call before is used again.
Callout_new_Reused == [state |-> c_state, script |-> c_script]

\* Callout::new(): state None and no script.
Callout_new == [state |-> "none", script |-> None]

\* The locals of a call at its start.
Restart ==
    /\ dir_idx' = 1
    /\ sorted_paths' = << >>
    /\ path_idx' = 1
    /\ found' = None
    /\ readdir' = {}
    /\ last_out' = NoOutput
    /\ eprint' = None
    /\ pre_res' = Pending
    /\ tmp_res' = Pending
    /\ post_res' = Pending
    /\ res' = Pending
    /\ log' = << >>

\* After a call returned, the process makes another call, of invoke or of
\* get_attributes, for a device, with the directories as they are.
next_call ==
    /\ pc = "done"
    /\ mode = "off"
    /\ earlier' = (earlier \/ c_state /= "none" \/ c_script /= None)
    /\ \/ /\ force' \in BOOLEAN
          /\ action' = "define"
          /\ event' = "pre"
          /\ pc' = "callout"
       \/ /\ force' = FALSE
          /\ action' = "attributes"
          /\ event' = "get"
          /\ pc' = "get"
    /\ mdev_type' \in {None, Some("t1")}
    /\ parent' \in {None, Some("P")}
    /\ uuid' = "U"
    /\ log_debug' \in BOOLEAN
    /\ c_state' = Callout_new.state
    /\ c_script' = Callout_new.script
    /\ Restart
    /\ UNCHANGED <<fs, mode, target, before>>

\* The twin of the call: a call in the state o.
twin_call(m, f, o) ==
    /\ mode' = m
    /\ force' = f
    /\ target' = <<Obs>>
    /\ pc' = o.pc
    /\ event' = o.event
    /\ mdev_type' = o.mdev_type
    /\ parent' = o.parent
    /\ uuid' = o.uuid
    /\ fs' = o.fs
    /\ c_state' = o.c_state
    /\ c_script' = o.c_script
    /\ dir_idx' = o.dir_idx
    /\ sorted_paths' = o.sorted_paths
    /\ path_idx' = o.path_idx
    /\ found' = o.found
    /\ readdir' = o.readdir
    /\ last_out' = o.last_out
    /\ eprint' = o.eprint
    /\ pre_res' = o.pre_res
    /\ tmp_res' = o.tmp_res
    /\ post_res' = o.post_res
    /\ res' = o.res
    /\ log' = o.log
    /\ UNCHANGED <<action, log_debug, earlier, before>>

\* The last step left the Pre callout running or successful: the twin is
\* the call with the other value of force, before that step.
twin_flipped ==
    /\ mode = "on"
    /\ before /= << >>
    /\ pre_res \in {Pending, Ok}
    /\ twin_call("flip", ~force, before[1])

\* The last step was taken by a forced call whose Pre callout failed, or
\* is the step in which it failed: the twin is the call in which the script
\* that claimed Pre exits with code 0, before that step.
twin_pre_ok ==
    /\ mode = "on"
    /\ before /= << >>
    /\ force
    /\ pre_res.tag = "InvocationFailure"
    /\ twin_call("asok", force, AsOk(before[1]))

\* The steps of a call of invoke.
Next ==
    \/ callout_dir_sticky
    \/ callout_dir_scan
    \/ invoke_first_matching_script
    \/ callout_exhausted
    \/ func
    \/ add_script
    \/ notify_dir
    \/ notify_script
    \/ notify_returns

Spec == Init /\ [][Next]_vars

SpecModify == InitModify /\ [][Next]_vars

\* The steps of a call of get_attributes.
NextGet ==
    \/ get_attributes_dir
    \/ invoke_first_matching_script
    \/ get_attributes_exhausted

SpecGet == InitGet /\ [][NextGet]_vars

\* A call of either.
InitAll == Init \/ InitGet
NextAll ==
    \/ Next
    \/ get_attributes_dir
    \/ get_attributes_exhausted

SpecAll == InitAll /\ [][NextAll]_vars

\* Every launched script exits and the action function returns: a step that
\* can be taken is taken.
FairSpec == SpecAll /\ WF_vars(NextAll)

\* A sequence of calls.
NextSeq ==
    \/ NextAll
    \/ next_call

SpecSeq == InitAll /\ [][NextSeq]_vars

\* A call of invoke and its twins.
InitTwin ==
    /\ force \in BOOLEAN
    /\ action = "define"
    /\ Start("pre", "callout")
    /\ earlier = FALSE
    /\ mode = "on"
    /\ target = << >>
    /\ before = << >>

NextTwin ==
    \/ Next
    \/ twin_flipped
    \/ twin_pre_ok

SpecTwin == InitTwin /\ [][NextTwin]_vars

(***************************************************************************)
(* Properties.                                                             *)
(***************************************************************************)

\* The positions of the log that hold a call of a script for event e, a call
\* of the action function, a call of notify.
Calls(e) == {i \in DOMAIN log : log[i].kind = "script" /\ log[i].event = e}
CallsOf(p, e) == {i \in Calls(e) : log[i].path = p}
FuncCalls == {i \in DOMAIN log : log[i].kind = "func"}
NotifyCalls == {i \in DOMAIN log : log[i].kind = "notify"}
Scans(e) == {i \in DOMAIN log : log[i].kind = "read_dir" /\ log[i].event = e}
NotifyEntries == UNION {{join(d, n) : n \in fs[d]} : d \in Range(notification_dirs)}
InNotify == pc \in {"notify", "notify_scan", "done"}
\* The device lacks a type or a parent: invoke_script launches no process.
Incomplete == mdev_type = None \/ parent = None

\* C1: notify is called at most once in a call of invoke, it has been called
\* (and has visited every notification directory) when invoke returns, and
\* its call comes after every Pre and Post invocation and after the action
\* function, and before every notification script.
C1_NotifyExactlyOnce ==
    /\ Cardinality(NotifyCalls) <= 1
    /\ pc = "done" =>
         /\ Cardinality(NotifyCalls) = 1
         /\ dir_idx = NumNotifyDirs + 1
         /\ readdir = {}
    /\ \A n \in NotifyCalls :
         /\ \A i \in Calls("pre") \cup Calls("post") \cup FuncCalls
                     \cup Scans("pre") \cup Scans("post") : i < n
         /\ \A i \in Calls("notify") \cup Scans("notify") : n < i

C1_Witness ==
    /\ pc = "done"
    /\ Calls("pre") /= {}
    /\ FuncCalls /= {}
    /\ Calls("post") /= {}
    /\ Calls("notify") /= {}

\* C2: when the Pre callout failed with an InvocationFailure (the claiming
\* script exited with a code other than 0 and 2) and force is false, the
\* action function is not called, no script is invoked for Post, every
\* notification script is invoked with state none, at most once, and when
\* invoke returns it returns the Pre error and every entry of every
\* notification directory has been invoked exactly once.
C2_PreFailureWithoutForce ==
    (pre_res.tag = "InvocationFailure" /\ ~force) =>
        /\ pre_res.code \notin {Some(0), Some(2)}
        /\ FuncCalls = {}
        /\ tmp_res = Pending
        /\ Calls("post") = {}
        /\ InNotify
        /\ res = pre_res
        /\ \A i \in Calls("notify") : log[i].state = "none" /\ log[i].path \in NotifyEntries
        /\ \A p \in NotifyEntries : Cardinality(CallsOf(p, "notify")) <= 1
        /\ pc = "done" =>
             \A p \in NotifyEntries : Cardinality(CallsOf(p, "notify")) = 1

C2_Witness ==
    /\ pc = "done"
    /\ pre_res.tag = "InvocationFailure"
    /\ ~force
    /\ NotifyEntries /= {}
    /\ res = pre_res

\* C3: when the Pre callout failed with an InvocationFailure and force is
\* true, the action function is called once, after the Pre invocations; the
\* Post callout runs after it and before notify; and invoke returns the
\* result of the action function, not the Pre error.
C3_PreFailureForced ==
    (pre_res.tag = "InvocationFailure" /\ force) =>
        /\ pc /= "func" => Cardinality(FuncCalls) = 1
        /\ \A f \in FuncCalls :
             /\ \A i \in Calls("pre") : i < f
             /\ \A i \in Calls("post") \cup NotifyCalls \cup Calls("notify") : f < i
        /\ \A n \in NotifyCalls :
             /\ Calls("post") /= {}
             /\ post_res /= Pending
             /\ \A i \in Calls("post") : i < n
        /\ InNotify =>
             /\ NotifyCalls /= {}
             /\ res = tmp_res
             /\ res \in {Ok, FuncError}
             /\ res /= pre_res

C3_Witness ==
    /\ pc = "done"
    /\ pre_res.tag = "InvocationFailure"
    /\ force
    /\ res = Ok
    /\ Calls("notify") /= {}

\* C4: when the action function succeeded, invoke returns success whatever
\* the Post callout returned.
C4_PostNeverAltersSuccess ==
    (tmp_res = Ok /\ (InNotify \/ (pc = "panic" /\ NotifyCalls /= {}))) =>
        /\ post_res /= Pending
        /\ res = Ok

C4_Witness ==
    /\ pc = "done"
    /\ tmp_res = Ok
    /\ post_res.tag = "InvocationFailure"
    /\ res = Ok

\* C5: when the action function failed, the state is failure, the Post
\* callout runs and every Post and notification script gets state failure,
\* notify is called, and invoke returns the error of the action function.
C5_ActionFailure ==
    tmp_res = FuncError =>
        /\ c_state = "failure"
        /\ \A i \in Calls("post") \cup Calls("notify") \cup NotifyCalls :
             log[i].state = "failure"
        /\ pc \in {"callout", "matcher"} => event = "post"
        /\ pc /= "func"
        /\ InNotify =>
             /\ post_res /= Pending
             /\ NotifyCalls /= {}
             /\ res = FuncError

C5_Witness ==
    /\ pc = "done"
    /\ tmp_res = FuncError
    /\ post_res.tag = "InvocationFailure"
    /\ Calls("notify") /= {}
    /\ res = FuncError

Max(S) == CHOOSE x \in S : \A y \in S : y <= x
Last == log[Len(log)]
\* The position of directory d in callout_dirs.
DirIndex(d) == CHOOSE i \in 1..NumCalloutDirs : callout_dirs[i] = d
\* Name a is before name b in lexicographic order: they agree on a prefix
\* after which a ends and b does not, or a has the smaller character.
NameBefore(a, b) ==
    \E k \in 0..Len(a) :
        /\ k <= Len(b)
        /\ \A j \in 1..k : a[j] = b[j]
        /\ \/ k = Len(a) /\ k < Len(b)
           \/ k < Len(a) /\ k < Len(b) /\ a[k + 1] < b[k + 1]
\* The calls made by the Matcher in its last scan of a callout directory,
\* which started at position r of the log.
CalloutScans == Scans("pre") \cup Scans("post")
MatcherCallsAfter(r) == {i \in DOMAIN log : i > r /\ log[i].via = "matcher"}
\* The process exited, with a code other than 2.
ExitedNot2(out) == out.tag = "Ok" /\ \E n \in ExitCodes \ {2} : out.code = Some(n)
\* The sticky script at the end of the Pre callout.
PreScript == IF FuncCalls /= {} THEN log[Max(FuncCalls)].script ELSE c_script

\* C6: the Matcher lists the entries of the directory sorted by path and
\* invokes them one at a time in that order; an entry whose process exited
\* with a code other than 2 is returned and ends the scan; after any other
\* outcome (exit 2, a signal, no process) the scan goes on with the next
\* entry and, after the last entry, returns that no script claimed.  (A
\* device without a type or without a parent makes invoke_script fail or
\* panic before any process is launched; a panic ends the call.)
C6_Matcher ==
    /\ pc = "matcher" =>
         /\ Range(sorted_paths) = {join(callout_dirs[dir_idx], n) : n \in fs[callout_dirs[dir_idx]]}
         /\ \A i, j \in DOMAIN sorted_paths :
              i < j => NameBefore(sorted_paths[i].name, sorted_paths[j].name)
         /\ path_idx \in DOMAIN sorted_paths
         /\ found = None
    /\ CalloutScans /= {} =>
         LET r == Max(CalloutScans)
             M == MatcherCallsAfter(r)
         IN  /\ M = (r + 1)..(r + Cardinality(M))
             /\ Cardinality(M) <= Len(sorted_paths)
             /\ \A i \in M : log[i].path = sorted_paths[i - r]
             /\ pc = "matcher" => path_idx = Cardinality(M) + 1
             /\ found /= None =>
                  /\ M /= {}
                  /\ found = Some(log[Max(M)].path)
                  /\ pc /= "matcher"
             /\ (log /= << >> /\ Last.via = "matcher" /\ pc /= "panic") =>
                  IF ExitedNot2(last_out)
                  THEN found = Some(Last.path) /\ pc /= "matcher"
                  ELSE /\ found = None
                       /\ IF Cardinality(M) < Len(sorted_paths)
                          THEN pc = "matcher"
                          ELSE pc /= "matcher"
    /\ CalloutScans = {} => found = None /\ pc /= "matcher"

C6_Witness ==
    /\ Len(sorted_paths) = 2
    /\ found = Some(sorted_paths[2])
    /\ Last.via = "matcher"
    /\ Len(log) = 3

\* C7: when a script claimed Pre (a sticky script is recorded when the action
\* function is called), the sticky script stays the same, no directory is
\* scanned for Post, and every Post invocation is of that script.
C7_StickyPost ==
    \A f \in FuncCalls :
        log[f].script /= None =>
            /\ c_script = log[f].script
            /\ Scans("post") = {}
            /\ \A i \in Calls("post") :
                 log[i].path = unwrap(log[f].script) /\ log[i].via = "sticky"
            /\ event = "post" => pc /= "matcher"

\* A script that sorts before the sticky script is in its directory and was
\* not invoked for Pre: it was added after the Pre callout.
C7_Witness ==
    /\ pc = "done"
    /\ c_script /= None
    /\ Calls("post") /= {}
    /\ \E n \in fs[unwrap(c_script).dir] :
         /\ NameBefore(n, unwrap(c_script).name)
         /\ CallsOf(join(unwrap(c_script).dir, n), "pre") = {}

\* C8: a script recorded as the claiming script after the action function ran
\* is the script that claimed Pre.
C8_PostClaimantClaimedPre ==
    \A f \in FuncCalls : c_script /= None => c_script = log[f].script

\* C9: the Pre callout never returns NoMatchingScript; when no script claimed
\* Pre it returns Ok, the action function is called whatever force is, and
\* invoke returns the result of the action function.
C9_NoPreClaim ==
    /\ pre_res.tag \in {"Pending", "Ok", "InvocationFailure"}
    /\ (pre_res /= Pending /\ PreScript = None) =>
         /\ pre_res = Ok
         /\ pc /= "func" => Cardinality(FuncCalls) = 1
         /\ InNotify => res = tmp_res /\ tmp_res \in {Ok, FuncError}

C9_Witness ==
    /\ pc = "done"
    /\ ~force
    /\ PreScript = None
    /\ Calls("pre") /= {}
    /\ res = tmp_res

\* C10: callout visits the directories in order; while it searches, no script
\* has claimed; when an entry claims (its process exited with a code other
\* than 2) callout returns, Ok for code 0 and InvocationFailure with the path
\* and the code otherwise, and the claiming script is the last one invoked for
\* the event, so that no script of a later directory is invoked.
C10_CalloutStopsAtFirstClaim ==
    /\ \A e \in {"pre", "post"} : \A i, j \in Calls(e) :
         (i < j /\ log[i].via = "matcher" /\ log[j].via = "matcher")
            => DirIndex(log[i].path.dir) <= DirIndex(log[j].path.dir)
    /\ pc \in {"callout", "matcher"} =>
         /\ \A i \in Calls(event) :
              log[i].via = "matcher" =>
                 IF pc = "matcher" THEN DirIndex(log[i].path.dir) <= dir_idx
                 ELSE DirIndex(log[i].path.dir) < dir_idx
         /\ event = "pre" => c_script = None /\ pre_res = Pending
         /\ event = "post" => post_res = Pending
    /\ (log /= << >> /\ Last.via = "matcher" /\ ExitedNot2(last_out)) =>
         LET r == IF Last.event = "pre" THEN pre_res ELSE post_res
         IN  /\ ~(pc \in {"callout", "matcher"} /\ event = Last.event)
             /\ IF last_out.code = Some(0) THEN r = Ok
                ELSE r = InvocationFailure(Last.path, last_out.code)
    /\ (pre_res /= Pending /\ PreScript /= None) =>
         /\ Calls("pre") /= {}
         /\ log[Max(Calls("pre"))].path = unwrap(PreScript)
         /\ \A i \in Calls("pre") :
              DirIndex(log[i].path.dir) <= DirIndex(unwrap(PreScript).dir)
         /\ \/ pre_res = Ok
            \/ /\ pre_res.tag = "InvocationFailure"
               /\ pre_res.path = unwrap(PreScript)

\* A script of the first directory claimed Pre and failed; the second
\* directory holds a script, which was not invoked.
C10_Witness ==
    /\ pc = "done"
    /\ ~force
    /\ pre_res.tag = "InvocationFailure"
    /\ pre_res.path.dir = callout_dirs[1]
    /\ fs[callout_dirs[2]] /= {}
    /\ \A i \in Calls("pre") : log[i].path.dir = callout_dirs[1]

\* The call is in its Notify phase, or has returned from it.
NotifyPhase == event = "notify" /\ pc \in {"notify", "notify_scan", "done"}
\* What invoke returns, as the phases before notify computed it.
Computed == IF FuncCalls = {} THEN pre_res ELSE tmp_res

\* C11: whatever the notification scripts return (a non-zero exit code, exit
\* 2, a signal, no process), notify invokes only entries of the notification
\* directories, with event notify, each at most once, and every one of them
\* exactly once when invoke returns; the result of invoke is the one computed
\* before notify; and for a device with a type and a parent the notification
\* scripts never end the call abnormally.
C11_NotifierNeverFails ==
    /\ \A i \in Calls("notify") :
         /\ log[i].via = "notify"
         /\ log[i].path \in NotifyEntries
    /\ \A i \in DOMAIN log : log[i].via = "notify" => log[i].event = "notify"
    /\ \A p \in NotifyEntries : Cardinality(CallsOf(p, "notify")) <= 1
    /\ (pc = "done" /\ event = "notify") =>
         \A p \in NotifyEntries : Cardinality(CallsOf(p, "notify")) = 1
    /\ NotifyPhase => res = Computed /\ res /= Pending
    /\ (pc = "panic" /\ NotifyCalls /= {}) => Incomplete

\* invoke returned the error of the action function after both notification
\* scripts were invoked.
C11_Witness ==
    /\ pc = "done"
    /\ Cardinality(NotifyEntries) = 2
    /\ Cardinality(Calls("notify")) = 2
    /\ res = FuncError
    /\ ~Incomplete

\* The call of invoke_script that the Matcher made for the claiming entry is
\* the last call, and last_out is its output.
GetClaimed == event = "get" /\ found /= None
\* Standard outputs that are not JSON.
NotJson == { <<"x">>, <<"[", "{", "}">>, <<"[", "{", "}", ",", "]">> }

\* C12: get_attributes returns an empty array when the claiming script exited
\* with 0 and wrote exactly [{}], null when it exited with 0 and wrote
\* nothing, and null, after going through every callout directory, when no
\* script claimed.
C12_GetAttributes ==
    /\ (GetClaimed /\ last_out.code = Some(0)) =>
         /\ pc = "done"
         /\ last_out.stdout = <<"[", "{", "}", "]">> => res = JsonOk(JArray(<< >>))
         /\ last_out.stdout = <<"[", "]">> => res = JsonOk(JArray(<< >>))
         /\ last_out.stdout = <<"[", "{", "}", "]", " ">> =>
              res = JsonOk(JArray(<<JObject>>))
         /\ last_out.stdout = << >> => res = JsonOk(JNull)
    /\ (event = "get" /\ pc = "done" /\ found = None) =>
         /\ res = JsonOk(JNull)
         /\ dir_idx = NumCalloutDirs + 1
         /\ \A i \in Calls("get") : log[i].via = "matcher"
    /\ (event = "get" /\ pc /= "done") => res = Pending /\ found = None

\* The script of the first directory declined, the script of the second
\* claimed and wrote [{}].
C12_Witness ==
    /\ pc = "done"
    /\ GetClaimed
    /\ Cardinality(Calls("get")) = 2
    /\ Last.path.dir = callout_dirs[2]
    /\ last_out.stdout = <<"[", "{", "}", "]">>
    /\ res = JsonOk(JArray(<< >>))

\* C13: when a script claims Get with a code other than 0, get_attributes
\* returns InvocationFailure with the path of the script and the code; when
\* it claims with code 0 and what it wrote is not empty and not JSON,
\* get_attributes returns InvalidJSON; in both cases the claiming script is
\* the last one invoked, no later directory is looked at.
C13_GetHardErrors ==
    /\ GetClaimed =>
         /\ pc = "done"
         /\ Last.kind = "script"
         /\ Last.path = unwrap(found)
         /\ \A i \in Calls("get") :
              DirIndex(log[i].path.dir) <= DirIndex(Last.path.dir)
         /\ dir_idx = DirIndex(Last.path.dir)
         /\ last_out.code \notin {None, Some(2)}
         /\ last_out.code /= Some(0) =>
              res = InvocationFailure(Last.path, last_out.code)
         /\ (last_out.code = Some(0) /\ last_out.stdout \in NotJson) =>
              res = InvalidJSON
    /\ (event = "get" /\ res.tag \in {"InvocationFailure", "InvalidJSON"}) =>
         GetClaimed

\* A script of the first directory claimed and wrote something that is not
\* JSON; the second directory holds a script, which was not invoked.
C13_Witness ==
    /\ pc = "done"
    /\ res = InvalidJSON
    /\ Last.path.dir = callout_dirs[1]
    /\ fs[callout_dirs[2]] /= {}
    /\ \A i \in Calls("get") : log[i].path.dir = callout_dirs[1]

\* The state the action function left: none while it has not run.
Reached ==
    IF FuncCalls = {} THEN "none"
    ELSE IF tmp_res = Ok THEN "success" ELSE "failure"

\* C14: every Pre and every Get invocation gets state none; every Post
\* invocation gets success when the action function returned Ok and failure
\* when it returned an error; every notification script gets the state
\* reached, which is none exactly when the action function did not run, that
\* is when Pre failed and force is false.
C14_StateToken ==
    /\ \A i \in Calls("pre") \cup Calls("get") : log[i].state = "none"
    /\ \A i \in Calls("post") :
         /\ tmp_res \in {Ok, FuncError}
         /\ log[i].state = Reached
         /\ log[i].state /= "none"
    /\ \A i \in Calls("notify") : log[i].state = Reached
    /\ \A i \in NotifyCalls :
         /\ log[i].state = Reached
         /\ Reached = "none" <=> (pre_res.tag /= "Ok" /\ ~force)
    /\ c_state = Reached

\* Pre failed and was forced, the action function failed, and a notification
\* script was invoked with state failure.
C14_Witness ==
    /\ pc = "done"
    /\ force
    /\ pre_res.tag = "InvocationFailure"
    /\ tmp_res = FuncError
    /\ \E i \in Calls("notify") : log[i].state = "failure"

\* The last call of invoke_script was made by the Matcher for event e on a
\* device with a type, and the script could not be launched.
SpawnFailed(e) ==
    /\ log /= << >>
    /\ Last.via = "matcher"
    /\ Last.event = e
    /\ last_out = IoError
    /\ mdev_type /= None

\* C15 as the specification states it: a script that cannot be launched in
\* the Pre phase of invoke (force false) ends the phase with an error and
\* the action function is not run; in the scan of get_attributes it ends the
\* call with an error.
C15_SpawnFailureIsFatal ==
    /\ (SpawnFailed("pre") /\ ~force) =>
         /\ pc \notin {"matcher", "callout", "func"}
         /\ pre_res.tag \notin {"Pending", "Ok"}
         /\ FuncCalls = {}
    /\ SpawnFailed("get") =>
         /\ pc = "done"
         /\ res.tag /= "Ok"

\* C15, amended: a script that cannot be launched during a scan of the
\* Matcher for Pre or Get is skipped like a script that declines.  The entry
\* does not claim, the scan goes on with the next entry and after the last
\* entry with the next directory; when nothing claims, the Pre callout
\* succeeds and the action function is run, and get_attributes returns null.
C15_SpawnFailureSkipped ==
    \A e \in {"pre", "get"} :
        SpawnFailed(e) =>
            /\ found = None
            /\ c_script = None
            /\ IF pc = "matcher"
               THEN path_idx > 1 /\ sorted_paths[path_idx - 1] = Last.path
               ELSE /\ Last.path = sorted_paths[Len(sorted_paths)]
                    /\ dir_idx > DirIndex(Last.path.dir)
            /\ e = "pre" =>
                 /\ pc \in {"matcher", "callout", "func"}
                 /\ pre_res \in {Pending, Ok}
                 /\ pc = "func" <=> pre_res = Ok
            /\ e = "get" =>
                 /\ pc \in {"matcher", "get", "done"}
                 /\ res \in {Pending, JsonOk(JNull)}
                 /\ pc = "done" <=> res = JsonOk(JNull)

\* The only script of the Pre scan could not be launched, force is false,
\* and the action function is about to run.
C15_Witness ==
    /\ SpawnFailed("pre")
    /\ ~force
    /\ pc = "func"
    /\ pre_res = Ok
    /\ Cardinality(Calls("pre")) = 1

\* C16: when the script just invoked exited after it wrote on its standard
\* error, what it wrote has been echoed to the operator under the file name
\* of the script.
C16_StderrEchoed ==
    (/\ log /= << >>
     /\ Last.kind = "script"
     /\ last_out.tag = "Ok"
     /\ last_out.code /= None
     /\ last_out.stderr)
        => eprint = Some(Last.path.name)

\* C17: no phase ends with an InvocationFailure for exit code 2 (nor for
\* code 0); a failure carries the other code the claiming script exited with.
C17_Exit2NeverFails ==
    \A r \in {pre_res, post_res, res} :
        r.tag = "InvocationFailure" => r.code \notin {None, Some(0), Some(2)}

CalloutEntries == UNION {{join(d, n) : n \in fs[d]} : d \in Range(callout_dirs)}

\* C18: with a single callout script, which claimed Pre with exit code 0, and
\* an action function that succeeded and left the type of the device as it
\* was (and its parent and identifier), once the Post callout has returned there is one Pre invocation and,
\* after it, one Post invocation, of the same path with the same arguments,
\* with state none for Pre and success for Post; and every notification
\* script is invoked with event notify and state success, all of them when
\* invoke returns.
C18_PrePostPair ==
    (/\ NotifyPhase
     /\ Cardinality(CalloutEntries) = 1
     /\ pre_res = Ok
     /\ PreScript /= None
     /\ tmp_res = Ok
     /\ \A f \in FuncCalls :
          /\ log[f].argv.t = mdev_type
          /\ log[f].argv.p = parent
          /\ log[f].argv.u = uuid) =>
        /\ Cardinality(Calls("pre")) = 1
        /\ Cardinality(Calls("post")) = 1
        /\ \A i \in Calls("pre"), j \in Calls("post") :
             /\ i < j
             /\ log[i].path = log[j].path
             /\ log[i].argv = log[j].argv
             /\ log[i].state = "none"
             /\ log[j].state = "success"
        /\ \A i \in DOMAIN log :
             log[i].via = "notify" =>
                 log[i].event = "notify" /\ log[i].state = "success"
        /\ pc = "done" =>
             \A p \in NotifyEntries : Cardinality(CallsOf(p, "notify")) = 1

\* C19: when every launched script exits and the action function returns,
\* the call ends: invoke and get_attributes return, or, for a device without
\* a type or without a parent, the unwrap of the type or of the parent ends
\* the call with a panic.
C19_Terminates == <>(pc = "done" \/ (pc = "panic" /\ Incomplete))

\* invoke returned after the sticky script was invoked for Post once for
\* every callout directory.
C19_Witness ==
    /\ pc = "done"
    /\ event = "notify"
    /\ Cardinality(Calls("post")) = NumCalloutDirs
    /\ Calls("notify") /= {}

\* The positions of the log that belong to the Pre phase, to the Post phase.
PrePhase == Calls("pre") \cup Scans("pre")
PostPhase == Calls("post") \cup Scans("post")

\* C20: the phases of invoke come in the order Pre, action function, Post,
\* notify, none of them twice: the action function and notify are called at
\* most once, every Pre invocation is before the call of the action function,
\* every Post invocation after it and before the call of notify, every
\* notification script after that; Post is attempted exactly when the action
\* function was called, and the action function is skipped exactly when Pre
\* failed and force is false.
C20_PhaseOrder ==
    /\ Cardinality(FuncCalls) <= 1
    /\ Cardinality(NotifyCalls) <= 1
    /\ \A f \in FuncCalls :
         /\ \A i \in PrePhase : i < f
         /\ \A i \in PostPhase \cup NotifyCalls \cup Calls("notify") \cup Scans("notify") :
              f < i
    /\ \A n \in NotifyCalls :
         /\ \A i \in PrePhase \cup PostPhase : i < n
         /\ \A i \in Calls("notify") \cup Scans("notify") : n < i
    /\ PostPhase /= {} => FuncCalls /= {}
    /\ Calls("notify") \cup Scans("notify") /= {} => NotifyCalls /= {}
    /\ event = "pre" =>
         /\ FuncCalls = {} /\ NotifyCalls = {} /\ tmp_res = Pending /\ post_res = Pending
         /\ pc \in {"callout", "matcher", "func", "panic"}
         /\ pc = "func" => pre_res /= Pending /\ (pre_res = Ok \/ force)
         /\ pc \in {"callout", "matcher"} => pre_res = Pending
    /\ event = "post" =>
         /\ Cardinality(FuncCalls) = 1 /\ NotifyCalls = {}
         /\ pre_res /= Pending /\ tmp_res /= Pending /\ post_res = Pending
         /\ pc \in {"callout", "matcher", "panic"}
    /\ event = "notify" =>
         /\ Cardinality(NotifyCalls) = 1
         /\ pre_res /= Pending
         /\ pc \in {"notify", "notify_scan", "done", "panic"}
         /\ FuncCalls /= {} <=> post_res /= Pending
         /\ FuncCalls /= {} <=> tmp_res /= Pending
         /\ FuncCalls = {} <=> (pre_res.tag /= "Ok" /\ ~force)
    /\ (pc = "done" /\ event /= "get") => event = "notify"

\* Pre failed and was forced: the action function ran, the sticky script was
\* invoked for Post without a scan, and the notification scripts ran.
C20_Witness ==
    /\ pc = "done"
    /\ force
    /\ pre_res.tag = "InvocationFailure"
    /\ Calls("post") /= {}
    /\ Scans("post") = {}
    /\ Scans("notify") /= {}

\* C23: the sticky script, once set, is never changed or cleared; it is set
\* only by the step in which the Matcher returns a claiming entry for Pre or
\* Post while no sticky script is recorded, to the path of that entry; and
\* every such step sets it, whatever the code the entry exited with.
C23_StickyAssignedOnce ==
    [][/\ c_script /= None => c_script' = c_script
       /\ (c_script = None /\ c_script' /= None) =>
            /\ pc = "matcher"
            /\ event \in {"pre", "post"}
            /\ c_script' = Some(sorted_paths[path_idx])
            /\ found' = c_script'
            /\ last_out'.tag = "Ok"
            /\ last_out'.code \notin {None, Some(2)}
       /\ (pc = "matcher" /\ event /= "get" /\ found' /= None) =>
            c_script' = found'
       /\ event = "get" => c_script' = None]_vars

\* The script claimed Pre with a failing code and was recorded: with force,
\* it was invoked for Post as the sticky script.
C23_Witness ==
    /\ pc = "done"
    /\ c_script /= None
    /\ pre_res = InvocationFailure(unwrap(c_script), Some(1))
    /\ \E i \in Calls("post") : log[i].via = "sticky"

\* What the last callout that returned has returned.
LastCallout == IF FuncCalls = {} THEN pre_res ELSE post_res

\* C24: when a callout returned InvocationFailure, a sticky script is
\* recorded, the failure carries its path and an exit code other than 0,
\* which is the code of the output just seen; and no call of a device with a
\* type and a parent ends in a panic (the unwrap of the sticky script never
\* fails).
C24_FailureCarriesSticky ==
    /\ \A r \in {pre_res, post_res} :
         r.tag = "InvocationFailure" =>
             /\ c_script /= None
             /\ r.path = unwrap(c_script)
             /\ r.code \notin {None, Some(0)}
    /\ (LastCallout.tag = "InvocationFailure" /\ last_out.tag /= "None") =>
         /\ last_out.tag = "Ok"
         /\ LastCallout.code = last_out.code
    /\ pc = "panic" => Incomplete

\* The sticky script was invoked for Post, exited with code 1, and the Post
\* callout returned InvocationFailure for it.
C24_Witness ==
    /\ event = "notify"
    /\ pre_res = Ok
    /\ c_script /= None
    /\ post_res = InvocationFailure(unwrap(c_script), Some(1))
    /\ last_out.code = Some(1)
    /\ Last.kind = "notify"

\* C25: when a script claimed Pre, the Post callout invokes that script, and
\* once it has returned the script has been invoked for Post exactly once.
C25_StickyPostOnce ==
    (PreScript /= None /\ FuncCalls /= {}) =>
        /\ Cardinality(Calls("post")) <= 1
        /\ \A i \in Calls("post") : log[i].path = unwrap(PreScript)
        /\ InNotify => Cardinality(Calls("post")) = 1

\* C26: only the step of the action function writes the state of the
\* session; no step of the Notify phase writes the state, the sticky script
\* or the result of invoke.
C26_StateWrittenByAction ==
    [][/\ c_state' /= c_state =>
            /\ pc = "func"
            /\ tmp_res' /= tmp_res
            /\ Len(log') = Len(log) + 1
            /\ log'[Len(log')].kind = "func"
       /\ event = "notify" => UNCHANGED <<c_state, c_script, res>>]_vars

\* invoke returned after the action function set the state to failure, a
\* script was recorded and a notification script was invoked.
C26_Witness ==
    /\ pc = "done"
    /\ c_state = "failure"
    /\ c_script /= None
    /\ res = FuncError
    /\ Calls("notify") /= {}

\* The device has no type during the Pre callout.
TypelessPre ==
    /\ event \in {"pre", "post", "notify"}
    /\ IF FuncCalls = {} THEN mdev_type = None
       ELSE \A f \in FuncCalls : log[f].argv.t = None

\* C27: for a device without a type no script is launched for Pre and no
\* entry claims, in any directory: no sticky script is recorded, the Pre
\* callout returns Ok, and the action function is run, whatever force is
\* (unless the unwrap of the type in invoke_script ends the call).
C27_TypelessLaunchesNothing ==
    TypelessPre =>
        /\ event = "pre" =>
             /\ last_out.tag /= "Ok"
             /\ found = None
             /\ c_script = None
             /\ pc \in {"callout", "matcher", "func", "panic"}
        /\ PreScript = None
        /\ pre_res \in {Pending, Ok}
        /\ (pc = "func" \/ event /= "pre") => pre_res = Ok
        /\ event /= "pre" => Cardinality(FuncCalls) = 1

\* Without force and with the log level below debug, the Matcher went
\* through a directory with an entry for a device without a type, and invoke
\* returned the result of the action function.
C27_Witness ==
    /\ TypelessPre
    /\ pc = "done"
    /\ ~force
    /\ ~log_debug
    /\ Calls("pre") /= {}
    /\ res = Ok

\* The call is a twin, and has not yet taken the step recorded.
TwinBehind == mode \in {"flip", "asok"} /\ Obs /= Expected(target[1])
\* The call is a twin that has taken the step recorded.
TwinDone == mode \in {"flip", "asok"} /\ Obs = Expected(target[1])

\* C21: force changes only what is done with a failed Pre callout.  Every
\* step of a call that leaves the Pre callout running or successful can be
\* taken, from the same state and to the same state (same invocations, same
\* call of the action function, same results), by the call with the other
\* value of force; and every step of a forced call whose Pre callout failed
\* can be taken, with the same invocations and results but for the result
\* of Pre, by the call in which the script that claimed Pre exited with 0.
C21_ForceOnlyOnPreFailure ==
    /\ TwinBehind => ENABLED Next
    /\ mode = "flip" => pre_res \in {Pending, Ok}
    /\ TwinDone =>
         /\ log = target[1].log
         /\ res = target[1].res
         /\ tmp_res = target[1].tmp_res
         /\ post_res = target[1].post_res
         /\ c_script = target[1].c_script
         /\ pc = target[1].pc
         /\ mode = "asok" => pre_res \in {Pending, Ok}

\* The twin without force of a forced call took the step in which the Post
\* callout returns for a sticky script and notify is called.
C21_Witness ==
    /\ TwinDone
    /\ mode = "flip"
    /\ ~force
    /\ before[1].event = "post"
    /\ event = "notify"
    /\ c_script /= None
    /\ Calls("post") /= {}

\* C22: every call starts from a new session, also after calls that left a
\* state and a sticky script: the state is none during Pre and in
\* get_attributes, no sticky script is recorded while Pre scans, every Pre
\* invocation is made by the Matcher with no sticky script, and
\* get_attributes records none.
C22_FreshSession ==
    /\ (log = << >> /\ pc \in {"callout", "get"}) =>
         c_state = "none" /\ c_script = None
    /\ event \in {"pre", "get"} => c_state = "none"
    /\ (event = "pre" /\ pc \in {"callout", "matcher"}) => c_script = None
    /\ \A i \in Calls("pre") \cup Calls("get") \cup Scans("pre") \cup Scans("get") :
         /\ log[i].script = None
         /\ log[i].state = "none"
         /\ log[i].via \in {"matcher", "none"}
    /\ event = "get" => c_script = None

\* A call of invoke, made after a call that left a session with a state or
\* a sticky script, scanned for Pre and returned.
C22_Witness ==
    /\ earlier
    /\ pc = "done"
    /\ event = "notify"
    /\ Scans("pre") /= {}
    /\ Calls("pre") /= {}
    /\ c_script /= None

====
